---------------------------- MODULE Spec2Model ----------------------------
(***************************************************************************)
(* panctl (src/pantalaimon/panctl.py): the interactive control shell of    *)
(* the pantalaimon daemon.                                                 *)
(*                                                                         *)
(* Two threads are modelled.  The main thread runs main(): it constructs   *)
(* PanCtl, hands GLib's main loop to an executor thread, runs the prompt   *)
(* loop PanCtl.loop() on the asyncio event loop, and finally asks the GLib *)
(* loop to quit and waits for it.  The executor thread (the "pump") runs   *)
(* glib_loop.run(), which dispatches the daemon's signals to show_info and *)
(* show_sas and, once queued, the idle source that quits the loop.         *)
(*                                                                         *)
(* Text.  A line of text is represented by the list Python's               *)
(* text.split(" ") gives: a non-empty sequence of space-free words, where  *)
(* a word may be empty ("" is <<"">>, "a  b" is <<"a", "", "b">>).  This   *)
(* is a bijection between strings and such lists, so the representation    *)
(* loses nothing.  Words are atomic strings; the words the operator may    *)
(* use are drawn from small vocabularies.                                  *)
(*                                                                         *)
(* Interpreter semantics assumed are those of the CPython the program was  *)
(* written for (3.7): argparse lets a later add_parser() of the same name  *)
(* replace the earlier one, and the interpreter joins the executor's       *)
(* worker threads before the process exits.                                *)
(***************************************************************************)
EXTENDS Integers, Sequences, FiniteSets, TLC

VARIABLES
    pc,          \* where the main thread is (see PcValues)
    buf,         \* the prompt's edit buffer (text, as its words)
    result,      \* the line promptsession.prompt() returned (loop, line 416)
    parsed_args, \* what parser.parse_args() gave for it (line 426)
    call,        \* the remote call the prompt context is blocked in, or NoCall
    remote,      \* remote calls issued for the current line, each with
                 \* its outcome, in order
    dispatched,  \* times the handler chain was entered for the current line
    pump,        \* the executor thread running glib_loop.run()
    idle,        \* TRUE while the idle source glib_loop.quit is queued
    handler,     \* the signal handler the pump is inside, or NoHandler
    emitted,     \* number of signals the daemon has emitted so far
    callbacks,   \* blocks queued on the asyncio loop by the stdout proxy
    screen,      \* rows on the terminal since the last line was accepted
    cause,       \* how the prompt loop ended: "none" while it has not
    log,         \* shutdown events in the order they happened
    exitStatus,  \* the process's exit status, or NotExited
    daemon,      \* the daemon's users and devices, as its endpoints report them
    completion,  \* the outcome of the last completion attempt on buf
    device,      \* the device record list_devices is printing
    key,         \* its fingerprint as partition_key returned it, or NotComputed
    color        \* its colour as get_color returned it, or NotComputed

vars == <<pc, buf, result, parsed_args, call, remote, dispatched, pump, idle, handler,
          emitted, callbacks, screen, cause, log, exitStatus, daemon,
          completion, device, key, color>>

\* The state the printing of one device reads and writes (lines 398-406).
renderVars == <<device, key, color>>

\* The state the completer reads and writes.
complVars == <<daemon, completion>>

-----------------------------------------------------------------------------
(* Bounds of the model.                                                    *)

\* Signals the daemon emits during one run.
MaxNotif == 2

\* Words in a line typed in the parsing model.
MaxWords == 5

\* Words in the text before the cursor in the completion model.
MaxBufWords == 5

\* Characters of a device id or of a fingerprint key.
MaxStrLen == 8

-----------------------------------------------------------------------------
(* Vocabulary.                                                             *)

\* PanCtl.commands (lines 272-282): the names command completion offers.
commands ==
    << "list-users", "list-devices", "export-keys", "import-keys",
       "verify-device", "unverify-device", "start-verification",
       "accept-verification", "confirm-verification" >>

Range(s) == { s[i] : i \in DOMAIN s }

\* Words that begin with '-': argparse classifies them as option strings.
\* "-h" is the help flag every ArgumentParser (and subparser) registers;
\* "-x" stands for any other such word.
HelpFlag == "-h"
OptionLike == { "-h", "-x" }

\* Plain argument words.
PlainWords == { "a", "b" }

\* First words: every name any of the three verb tables knows, a word that
\* is no verb, option-like words, and the empty word (a leading space).
FirstWords ==
    Range(commands) \cup { "cancel-verification", "foo", "-h", "-x", "" }

\* Later words.
ArgWords == PlainWords \cup { "-h", "" }

\* The texts of at most n words with the first word in F, the others in A.
Lines(F, A, n) ==
    UNION { { <<f>> \o t : f \in F, t \in [1..k -> A] } : k \in 0..(n - 1) }

\* str.split() (no argument) of a text without tabs: the non-empty words.
split(text) == SelectSeq(text, LAMBDA w : w # "")

\* "not result" (line 420): the empty string.
IsEmptyText(text) == text = <<"">>

-----------------------------------------------------------------------------
(* PanctlParser (lines 44-90) and argparse as PanctlArgParse configures it *)

\* The add_parser() calls of PanctlParser.__init__ in source order, each
\* with the positional parameters added to it.  "verify-device" is added
\* twice (lines 69 and 74); no parser is added for "unverify-device".
Registrations ==
    << << "list-users",           << >> >>,
       << "list-devices",         << "pan_user", "user_id" >> >>,
       << "start-verification",   << "pan_user", "user_id", "device_id" >> >>,
       << "accept-verification",  << "pan_user", "user_id", "device_id" >> >>,
       << "confirm-verification", << "pan_user", "user_id", "device_id" >> >>,
       << "verify-device",        << "pan_user", "user_id", "device_id" >> >>,
       << "verify-device",        << "pan_user", "user_id", "device_id" >> >>,
       << "import-keys",          << "pan_user", "path", "passphrase" >> >>,
       << "export-keys",          << "pan_user", "path", "passphrase" >> >> >>

\* The subparser choices: _name_parser_map's keys.
Choices == { Registrations[i][1] : i \in DOMAIN Registrations }

\* The parameters of a choice: those of the last parser added under it.
Params(name) ==
    LET last == CHOOSE i \in DOMAIN Registrations :
                    /\ Registrations[i][1] = name
                    /\ \A j \in DOMAIN Registrations :
                           Registrations[j][1] = name => j <= i
    IN  Registrations[last][2]

\* The three outcomes of parse_args: a Namespace, ParseError raised by
\* PanctlArgParse.error (lines 35-41), or SystemExit raised by the help
\* action, which PanctlArgParse does not override.
NoSubcommand == "None"
Namespace(name, bound) == [ kind |-> "ok", subcommand |-> name, args |-> bound ]
ParseErrorRaised == [ kind |-> "error", subcommand |-> NoSubcommand, args |-> << >> ]
SystemExitRaised == [ kind |-> "exit", subcommand |-> NoSubcommand, args |-> << >> ]
NotParsed == [ kind |-> "none", subcommand |-> NoSubcommand, args |-> << >> ]

\* The subparser for name applied to the words after it.  Option strings
\* are taken as they come: -h prints the help and exits at once; another
\* option string is left over.  The positionals bind in order; fewer than
\* declared is an error of the subparser, anything left over an error of
\* the top-level parser ("unrecognized arguments").
subparse(name, rest, leftover) ==
    LET params == Params(name)
        pos    == SelectSeq(rest, LAMBDA w : w \notin OptionLike)
        opts   == SelectSeq(rest, LAMBDA w : w \in OptionLike)
    IN  IF \E i \in DOMAIN rest : rest[i] = HelpFlag
        THEN SystemExitRaised
        ELSE IF Len(pos) < Len(params)
        THEN ParseErrorRaised
        ELSE IF Len(pos) > Len(params) \/ opts # << >> \/ leftover
        THEN ParseErrorRaised
        ELSE Namespace(name, [ i \in 1..Len(params) |-> << params[i], pos[i] >> ])

\* PanctlParser.parse_args(argv) (lines 89-90).  Option strings before the
\* first positional are handled first (-h exits); the first positional
\* must be one of the choices ("invalid choice" otherwise) and the rest of
\* argv goes to its subparser.  With no positional at all the subcommand
\* stays None (the subparsers action is not required).
parse_args(argv) ==
    LET n      == Len(argv)
        isPos  == { i \in 1..n : argv[i] \notin OptionLike }
        first  == IF isPos = {} THEN n + 1
                  ELSE CHOOSE i \in isPos : \A j \in isPos : i <= j
        lead   == SubSeq(argv, 1, first - 1)
    IN  IF \E i \in DOMAIN lead : lead[i] = HelpFlag
        THEN SystemExitRaised
        ELSE IF first = n + 1
        THEN IF n = 0 THEN Namespace(NoSubcommand, << >>) ELSE ParseErrorRaised
        ELSE IF argv[first] \notin Choices
        THEN ParseErrorRaised
        ELSE subparse(argv[first], SubSeq(argv, first + 1, n), lead # << >>)

-----------------------------------------------------------------------------
(* The terminal.  A row is a sequence of cells; a cell records what wrote  *)
(* it.  The live prompt line is the row << prompt cell >> kept last by the *)
(* line editor while the prompt is active.                                 *)

\* at: for a signal's text, what the prompt context was doing when the
\* signal was delivered ("typing": at the prompt with a non-empty buffer;
\* "prompt": at the prompt with an empty buffer; "busy": elsewhere).
Cell(src, id, part, text, fd, at) ==
    [ src |-> src, id |-> id, part |-> part, text |-> text, fd |-> fd,
      at |-> at ]

\* "panctl> " followed by the edit buffer (PromptSession, line 411).
PromptRow(b) == << Cell("prompt", 0, 0, b, "stdout", "main") >>

\* Lines of text one show_info call prints (line 308) ...
InfoRows == 1
\* ... and one show_sas call: the heading, the emoji row and the
\* description row (lines 348-352).
SasRows == 3

\* The block of rows the handler h (of signal number h.id) prints.
BlockRows(kind) == IF kind = "sas" THEN SasRows ELSE InfoRows
Block(h) ==
    [ p \in 1..BlockRows(h.kind) |->
          << Cell(h.kind, h.id, p, << >>, "stdout", h.at) >> ]

\* One row written by the prompt context itself.
Message(src, text, fd) == << << Cell(src, 0, 0, text, fd, "main") >> >>

IsPromptRow(row) == Len(row) = 1 /\ row[1].src = "prompt"

Front(s) == SubSeq(s, 1, Len(s) - 1)
Last(s) == s[Len(s)]

\* The line editor draws or redraws its line: in place when the cursor is
\* on the prompt row, on a new row otherwise.
redraw(scr, b) ==
    IF scr # << >> /\ IsPromptRow(Last(scr))
    THEN Append(Front(scr), PromptRow(b))
    ELSE Append(scr, PromptRow(b))

\* A write that goes straight to the terminal.  While the prompt line is
\* live the text continues the row the cursor is on.
write_raw(scr, rows, live) ==
    IF live /\ scr # << >>
    THEN Append(Front(scr), Last(scr) \o rows[1]) \o Tail(rows)
    ELSE scr \o rows

\* prompt_toolkit's run_in_terminal, which the stdout proxy installed by
\* patch_stdout() (line 414) uses for every write: the live line is erased,
\* the text written, and the line drawn again below it.
run_in_terminal(scr, rows, live, b) ==
    IF live /\ scr # << >>
    THEN Append(Front(scr) \o rows, PromptRow(b))
    ELSE scr \o rows

-----------------------------------------------------------------------------
(* State                                                                   *)

PcValues ==
    { "start",       \* main(), before PanCtl() (line 456)
      "spawn",       \* PanCtl constructed, before run_in_executor (461)
      "Loop",        \* loop(): at the top of the while loop (413)
      "Prompt",      \* loop(): inside patch_stdout, awaiting prompt() (416)
      "Parse",       \* loop(): prompt() returned a line (420-428)
      "Dispatch",    \* loop(): choosing the handler (430-448)
      "Call",        \* loop(): blocked in a remote call
      "stopped",     \* loop() ended, before GLib.idle_add (471)
      "join",        \* awaiting the pump's future (472)
      "finalizing",  \* an exception left main(): the interpreter shuts down
      "exited" }     \* the process is gone

NoCall == [ endpoint |-> "none", method |-> "none", args |-> << >> ]
NoHandler == [ kind |-> "none", id |-> 0, sink |-> "none", at |-> "none" ]
NotExited == << >>

\* The daemon as its two endpoints report it: list_users() gives pairs
\* (user, device) of the users the daemon serves, devices.list(pan_user)
\* and devices.list_user_devices(pan_user, user_id) give the records of
\* the devices a served user knows.
Device(pan_user, user_id, device_id) ==
    [ pan_user |-> pan_user, user_id |-> user_id, device_id |-> device_id ]

Daemon0 == [ users |-> << >>, devices |-> << >> ]
Daemon1 ==
    [ users   |-> << <<"@alice", "AB">>, <<"@bob", "CD">> >>,
      devices |-> << Device("@alice", "@alice", "AB"),
                     Device("@alice", "@carol", "CD"),
                     Device("@alice", "@carol", "AL"),
                     Device("@bob", "@alice", "AB") >> ]
Daemon2 ==
    [ users   |-> << <<"@alice", "AB">> >>,
      devices |-> << Device("@alice", "@alice", "AB") >> ]
DaemonStates == { Daemon0, Daemon1, Daemon2 }

\* list_devices is not printing a device; a value not yet computed.
NoDevice == [ device_id |-> << >>, fingerprint_key |-> << >> ]
NotComputed == << >>

\* No completion attempt has been made on the buffer as it stands.
\* An attempt is kept with the state of the daemon it was made at (at) and
\* the one the attempt before it was made at (before), << >> for none.
NoCompletion ==
    [ status |-> "none", source |-> "none", queries |-> << >>,
      candidates |-> << >>, at |-> << >>, before |-> << >> ]

Init ==
    /\ pc = "start"
    /\ buf = <<"">>
    /\ result = <<"">>
    /\ parsed_args = NotParsed
    /\ call = NoCall
    /\ remote = << >>
    /\ dispatched = 0
    /\ pump = "none"
    /\ idle = FALSE
    /\ handler = NoHandler
    /\ emitted = 0
    /\ callbacks = << >>
    /\ screen = << >>
    /\ cause = "none"
    /\ log = << >>
    /\ exitStatus = NotExited
    /\ daemon = Daemon1
    /\ completion = NoCompletion
    /\ device = NoDevice
    /\ key = NotComputed
    /\ color = NotComputed

\* What sys.exit(arg) makes the process's exit status.
exit_code(arg) == arg % 256

-----------------------------------------------------------------------------
(* main() up to the prompt loop (lines 451-464)                            *)

\* A main that prints the diagnostic and goes on instead of exiting.
PanCtl_init_falls_through ==
    /\ UNCHANGED complVars
    /\ UNCHANGED renderVars
    /\ pc = "start"
    /\ pc' = "spawn"
    /\ \E reachable \in BOOLEAN :
         IF reachable
         THEN UNCHANGED <<screen, cause>>
         ELSE /\ screen' = screen \o
                     Message("diag", <<"Error, no pantalaimon bus found">>, "stdout")
              /\ cause' = "nobus"
    /\ UNCHANGED <<buf, result, parsed_args, call, remote, dispatched, pump,
                   idle, handler, emitted, callbacks, log, exitStatus>>

\* PanCtl() (lines 284-305, 455-459).  dbus.SessionBus() and get_object()
\* raise DBusException when the daemon's bus name cannot be reached; main
\* then prints the diagnostic with print(), that is to standard output,
\* and calls sys.exit(-1).  No worker thread exists yet, so the process
\* exits at once.
PanCtl_init ==
    /\ UNCHANGED complVars
    /\ UNCHANGED renderVars
    /\ pc = "start"
    /\ \E reachable \in BOOLEAN :
         IF reachable
         THEN /\ pc' = "spawn"
              /\ UNCHANGED <<screen, cause, log, exitStatus>>
         ELSE /\ pc' = "exited"
              /\ screen' = screen \o
                     Message("diag", <<"Error, no pantalaimon bus found">>, "stdout")
              /\ cause' = "nobus"
              /\ log' = <<"exit">>
              /\ exitStatus' = << exit_code(-1) >>
    /\ UNCHANGED <<buf, result, parsed_args, call, remote, dispatched, pump,
                   idle, handler, emitted, callbacks>>

\* loop.run_in_executor(None, glib_loop.run) (lines 461-464) submits the
\* pump to the default executor; run_until_complete(panctl.loop()) then
\* enters the loop.
run_in_executor ==
    /\ UNCHANGED complVars
    /\ UNCHANGED renderVars
    /\ pc = "spawn"
    /\ pump' = "submitted"
    /\ pc' = "Loop"
    /\ UNCHANGED <<buf, result, parsed_args, call, remote, dispatched, idle,
                   handler, emitted, callbacks, screen, cause, log, exitStatus>>

-----------------------------------------------------------------------------
(* PanCtl.loop (lines 408-448)                                             *)

\* Lines 413-416: the next iteration enters the with-block and calls
\* prompt(), which draws an empty line.  What the previous iteration left
\* (its locals, and the rows above, which scroll out of the model's view)
\* is gone.
prompt ==
    /\ UNCHANGED complVars
    /\ UNCHANGED renderVars
    /\ pc = "Loop"
    /\ pc' = "Prompt"
    /\ buf' = <<"">>
    /\ result' = <<"">>
    /\ parsed_args' = NotParsed
    /\ remote' = << >>
    /\ dispatched' = 0
    /\ screen' = << PromptRow(<<"">>) >>
    /\ UNCHANGED <<call, pump, idle, handler, emitted, callbacks, cause, log,
                   exitStatus>>

\* The operator edits the line: the buffer changes and the line editor
\* redraws its line.
prompt_edit(L) ==
    /\ pc = "Prompt"
    /\ \E t \in L \ {buf} :
         /\ buf' = t
         /\ screen' = redraw(screen, t)
    /\ completion' = NoCompletion
    /\ UNCHANGED daemon
    /\ UNCHANGED renderVars
    /\ UNCHANGED <<pc, result, parsed_args, call, remote, dispatched, pump,
                   idle, handler, emitted, callbacks, cause, log, exitStatus>>

\* promptsession.prompt() returns the text t (line 416) and the with-block
\* of line 414 is left; the line stays on the screen as entered.
prompt_returns(t) ==
    /\ completion' = NoCompletion
    /\ UNCHANGED daemon
    /\ UNCHANGED renderVars
    /\ pc = "Prompt"
    /\ result' = t
    /\ pc' = "Parse"
    /\ buf' = t
    /\ screen' = redraw(screen, t)
    /\ UNCHANGED <<parsed_args, call, remote, dispatched, pump, idle, handler,
                   emitted, callbacks, cause, log, exitStatus>>

\* The operator presses Enter on the line as edited.
prompt_accept == prompt_returns(buf)

\* The operator types a whole line and presses Enter.
prompt_line(L) ==
    /\ pc = "Prompt"
    /\ \E t \in L : prompt_returns(t)

\* loop() is left: its locals and the prompt session are gone, and the
\* rows above scroll out of the model's view.
loop_ends ==
    /\ completion' = NoCompletion
    /\ UNCHANGED daemon
    /\ UNCHANGED renderVars
    /\ buf' = <<"">>
    /\ result' = <<"">>
    /\ parsed_args' = NotParsed
    /\ remote' = << >>
    /\ dispatched' = 0
    /\ screen' = << >>

\* End of input (Ctrl-D on an empty buffer): prompt() raises EOFError and
\* the loop breaks (lines 417-418); loop() returns to main.
prompt_eof ==
    /\ pc = "Prompt"
    /\ IsEmptyText(buf)
    /\ pc' = "stopped"
    /\ cause' = "eof"
    /\ log' = <<"stop">>
    /\ loop_ends
    /\ UNCHANGED <<call, pump, idle, handler, emitted, callbacks, exitStatus>>

\* A user interrupt while the loop runs: KeyboardInterrupt leaves loop()
\* (only EOFError and ParseError are caught there) and is caught in main
\* (lines 466-469).
KeyboardInterrupt ==
    /\ pc \in { "Loop", "Prompt", "Parse", "Dispatch", "Call" }
    /\ pc' = "stopped"
    /\ cause' = "interrupt"
    /\ log' = <<"stop">>
    /\ call' = NoCall
    /\ loop_ends
    /\ UNCHANGED <<pump, idle, handler, emitted, callbacks, exitStatus>>

\* Lines 420-428: an empty line continues; otherwise the line is split on
\* whitespace and parsed.  ParseError (its message printed by error())
\* continues the loop; SystemExit is not caught anywhere and leaves main.
parse ==
    /\ UNCHANGED complVars
    /\ UNCHANGED renderVars
    /\ pc = "Parse"
    /\ IF IsEmptyText(result)
       THEN /\ pc' = "Loop"
            /\ UNCHANGED <<parsed_args, screen, cause, log>>
       ELSE LET ns == parse_args(split(result)) IN
            /\ parsed_args' = ns
            /\ CASE ns.kind = "ok" ->
                      /\ pc' = "Dispatch"
                      /\ UNCHANGED <<screen, cause, log>>
                 [] ns.kind = "error" ->
                      /\ pc' = "Loop"
                      /\ screen' = screen \o
                             Message("error", <<"Error: (see help)">>, "stdout")
                      /\ UNCHANGED <<cause, log>>
                 [] ns.kind = "exit" ->
                      /\ pc' = "finalizing"
                      /\ screen' = screen \o Message("help", <<"usage">>, "stdout")
                      /\ cause' = "SystemExit"
                      /\ log' = <<"stop">>
    /\ UNCHANGED <<buf, result, call, remote, dispatched, pump, idle, handler,
                   emitted, callbacks, exitStatus>>

\* args.<name> of a Namespace.
Attr(ns, name) ==
    LET i == CHOOSE j \in DOMAIN ns.args : ns.args[j][1] = name
    IN  ns.args[i][2]

RemoteCall(endpoint, method, args) ==
    [ endpoint |-> endpoint, method |-> method, args |-> args ]

\* The remote call the if-chain of lines 430-448 makes for a Namespace,
\* through list_users (354-361), export_keys (371-377), import_keys
\* (363-369), list_devices (387-392) and confirm_sas (379-385); NoCall for
\* accept-verification (pass) and for a subcommand no branch names.
dispatch_call(ns) ==
    LET command == ns.subcommand IN
    CASE command = "list-users" ->
           RemoteCall("control", "list_users", << >>)
      [] command = "export-keys" ->
           RemoteCall("control", "export_keys",
               << Attr(ns, "pan_user"), Attr(ns, "path"), Attr(ns, "passphrase") >>)
      [] command = "import-keys" ->
           RemoteCall("control", "import_keys",
               << Attr(ns, "pan_user"), Attr(ns, "path"), Attr(ns, "passphrase") >>)
      [] command = "accept-verification" ->
           NoCall
      [] command = "list-devices" ->
           RemoteCall("devices", "list_user_devices",
               << Attr(ns, "pan_user"), Attr(ns, "user_id") >>)
      [] command = "confirm-verification" ->
           RemoteCall("devices", "confirm_sas",
               << Attr(ns, "pan_user"), Attr(ns, "user_id"), Attr(ns, "device_id") >>)
      [] OTHER ->
           NoCall

\* A call as the history of the current line keeps it.
Issued(c, outcome) ==
    [ endpoint |-> c.endpoint, method |-> c.method, args |-> c.args,
      outcome |-> outcome ]

\* A handler chain that starts the remote call and goes on to the next
\* prompt without waiting for it.
dispatch_without_waiting ==
    /\ UNCHANGED complVars
    /\ UNCHANGED renderVars
    /\ pc = "Dispatch"
    /\ dispatched' = dispatched + 1
    /\ LET c == dispatch_call(parsed_args) IN
         /\ call' = c
         /\ remote' = IF c = NoCall THEN remote
                      ELSE Append(remote, Issued(c, "pending"))
    /\ pc' = "Loop"
    /\ UNCHANGED <<buf, result, parsed_args, pump, idle, handler, emitted,
                   callbacks, screen, cause, log, exitStatus>>

\* Lines 430-448: the handler for the subcommand is entered.  A handler
\* that calls the daemon blocks in the call; otherwise the loop goes round.
dispatch ==
    /\ UNCHANGED complVars
    /\ UNCHANGED renderVars
    /\ pc = "Dispatch"
    /\ dispatched' = dispatched + 1
    /\ LET c == dispatch_call(parsed_args) IN
         IF c = NoCall
         THEN /\ pc' = "Loop"
              /\ UNCHANGED <<call, remote, screen>>
         ELSE /\ pc' = "Call"
              /\ call' = c
              /\ remote' = Append(remote, Issued(c, "pending"))
              /\ UNCHANGED screen
    /\ UNCHANGED <<buf, result, parsed_args, pump, idle, handler, emitted,
                   callbacks, cause, log, exitStatus>>

\* What a handler prints once its call has returned.
handler_output(c) ==
    CASE c.method = "list_users" ->
           Message("out", <<"pantalaimon users:">>, "stdout")
      [] c.method = "list_user_devices" ->
           Message("out", <<"Devices for user">>, "stdout")
      [] OTHER -> << >>

\* The loop after a remote call has raised: no handler and no line of
\* loop() catches DBusException, and main catches only KeyboardInterrupt,
\* so the exception leaves main(); the traceback goes to standard error.
dispatch_failed ==
    /\ pc' = "finalizing"
    /\ screen' = screen \o Message("traceback", <<"DBusException">>, "stderr")
    /\ cause' = "DBusException"
    /\ log' = <<"stop">>

\* The blocking remote call returns or raises DBusException.
remote_return ==
    /\ UNCHANGED complVars
    /\ UNCHANGED renderVars
    /\ pc = "Call"
    /\ call' = NoCall
    /\ \E ok \in BOOLEAN :
         IF ok
         THEN /\ pc' = "Loop"
              /\ remote' = Append(Front(remote), Issued(call, "returned"))
              /\ screen' = screen \o handler_output(call)
              /\ UNCHANGED <<cause, log>>
         ELSE /\ remote' = Append(Front(remote), Issued(call, "raised"))
              /\ dispatch_failed
    /\ UNCHANGED <<buf, result, parsed_args, dispatched, pump, idle, handler,
                   emitted, callbacks, exitStatus>>

-----------------------------------------------------------------------------
(* main() after the prompt loop (lines 471-472)                            *)

\* A quit that is not queued but made at once, glib_loop.quit(): it stops
\* a loop that runs and is forgotten by one that has yet to start.
quit_if_running(p) == p = "running"

\* Whether GLib.idle_add(glib_loop.quit) leaves a quit request queued: the
\* idle source is attached to the default main context whatever the state
\* p of the thread that will iterate it.
idle_add(p) == TRUE

\* Line 471, reached when loop() returned or KeyboardInterrupt was caught.
idle_add_quit ==
    /\ UNCHANGED complVars
    /\ UNCHANGED renderVars
    /\ pc = "stopped"
    /\ pc' = "join"
    /\ idle' = idle_add(pump)
    /\ log' = Append(log, "signal")
    /\ UNCHANGED <<buf, result, parsed_args, call, remote, dispatched, pump, handler,
                   emitted, callbacks, screen, cause, exitStatus>>

\* A main that does not wait for the pump.
fut_not_awaited(p) == TRUE

\* Whether the future of run_in_executor is done: when glib_loop.run() has
\* returned in the pump thread in state p.
fut_done(p) == p = "returned"

\* Line 472: run_until_complete(fut) returns once the pump has ended; main
\* returns and the process exits with status 0.
await_fut ==
    /\ UNCHANGED complVars
    /\ UNCHANGED renderVars
    /\ pc = "join"
    /\ fut_done(pump)
    /\ pc' = "exited"
    /\ exitStatus' = << 0 >>
    /\ log' = Append(log, "exit")
    /\ UNCHANGED <<buf, result, parsed_args, call, remote, dispatched, pump, idle, handler,
                   emitted, callbacks, screen, cause>>

-----------------------------------------------------------------------------
(* The pump: glib_loop.run() in the executor thread                        *)

\* The worker thread starts and enters glib_loop.run().
glib_run ==
    /\ UNCHANGED complVars
    /\ UNCHANGED renderVars
    /\ pump = "submitted"
    /\ pump' = "running"
    /\ log' = IF log = << >> THEN log ELSE Append(log, "run")
    /\ UNCHANGED <<pc, buf, result, parsed_args, call, remote, dispatched, idle, handler,
                   emitted, callbacks, screen, cause, exitStatus>>

\* The loop dispatches the idle source: glib_loop.quit() runs inside the
\* loop, and run() returns.
glib_quit ==
    /\ UNCHANGED complVars
    /\ UNCHANGED renderVars
    /\ pump = "running"
    /\ handler = NoHandler
    /\ idle
    /\ pump' = "returned"
    /\ idle' = FALSE
    /\ log' = Append(log, "return")
    /\ UNCHANGED <<pc, buf, result, parsed_args, call, remote, dispatched, handler,
                   emitted, callbacks, screen, cause, exitStatus>>

\* A program without the with-block of line 414: print() always writes to
\* the terminal.
stdout_unpatched(p) == "raw"

\* Where print() writes when the main thread is at p: sys.stdout is the
\* proxy inside the with-block of line 414 and the terminal elsewhere.
stdout_sink(p) == IF p = "Prompt" THEN "proxy" ELSE "raw"

\* What the prompt context is doing when a signal is delivered.
delivered_at == IF pc # "Prompt" THEN "busy"
                ELSE IF IsEmptyText(buf) THEN "prompt" ELSE "typing"

\* The daemon emits "info" or "sas_show"; the loop calls the receiver
\* registered in __attrs_post_init__ (lines 296-305), which reaches its
\* print() and finds sys.stdout.
signal ==
    /\ UNCHANGED complVars
    /\ UNCHANGED renderVars
    /\ pump = "running"
    /\ handler = NoHandler
    /\ emitted < MaxNotif
    /\ \E kind \in { "info", "sas" } :
         handler' = [ kind |-> kind, id |-> emitted + 1,
                      sink |-> stdout_sink(pc), at |-> delivered_at ]
    /\ emitted' = emitted + 1
    /\ UNCHANGED <<pc, buf, result, parsed_args, call, remote, dispatched, pump, idle,
                   callbacks, screen, cause, log, exitStatus>>

\* A handler that, besides printing, empties the line being edited.
show_and_clear_line(kind) ==
    /\ UNCHANGED complVars
    /\ UNCHANGED renderVars
    /\ handler.kind = kind
    /\ IF handler.sink = "proxy"
       THEN /\ callbacks' = Append(callbacks, handler)
            /\ UNCHANGED screen
       ELSE /\ screen' = write_raw(screen, Block(handler), pc = "Prompt")
            /\ UNCHANGED callbacks
    /\ handler' = NoHandler
    /\ buf' = << "" >>
    /\ UNCHANGED <<pc, result, parsed_args, call, remote, dispatched, pump, idle,
                   emitted, cause, log, exitStatus>>

\* print() writes the text: the proxy hands it to the asyncio loop as one
\* block; the terminal gets it at once.
show(kind) ==
    /\ UNCHANGED complVars
    /\ UNCHANGED renderVars
    /\ handler.kind = kind
    /\ IF handler.sink = "proxy"
       THEN /\ callbacks' = Append(callbacks, handler)
            /\ UNCHANGED screen
       ELSE /\ screen' = write_raw(screen, Block(handler), pc = "Prompt")
            /\ UNCHANGED callbacks
    /\ handler' = NoHandler
    /\ UNCHANGED <<pc, buf, result, parsed_args, call, remote, dispatched, pump, idle,
                   emitted, cause, log, exitStatus>>

\* show_info (lines 307-308).
show_info == show("info")

\* show_sas (lines 312-352).
show_sas == show("sas")

\* The asyncio loop, while it runs (awaiting prompt() or the pump's
\* future), runs the proxy's next block through run_in_terminal.
flush_proxy ==
    /\ UNCHANGED complVars
    /\ UNCHANGED renderVars
    /\ pc \in { "Prompt", "join" }
    /\ callbacks # << >>
    /\ screen' = run_in_terminal(screen, Block(Head(callbacks)), pc = "Prompt", buf)
    /\ callbacks' = Tail(callbacks)
    /\ UNCHANGED <<pc, buf, result, parsed_args, call, remote, dispatched, pump, idle,
                   handler, emitted, cause, log, exitStatus>>

-----------------------------------------------------------------------------
(* PanCompleter (lines 93-232).  A completion attempt is one call of       *)
(* get_completions and the iteration of what it returns: the helpers are   *)
(* generator functions, so their remote query is made when the line editor *)
(* takes the first candidate.  Each helper is the set of outcomes the      *)
(* attempt can have: the query returns or raises, and a Python set is      *)
(* iterated in an order the language does not fix.                         *)

\* The characters of the words completion compares.
Str(word) ==
    CASE word = "list-users" ->
           << "l", "i", "s", "t", "-",
              "u", "s", "e", "r", "s" >>
      [] word = "list-devices" ->
           << "l", "i", "s", "t", "-", "d",
              "e", "v", "i", "c", "e", "s" >>
      [] word = "export-keys" ->
           << "e", "x", "p", "o", "r",
              "t", "-", "k", "e", "y", "s" >>
      [] word = "import-keys" ->
           << "i", "m", "p", "o", "r",
              "t", "-", "k", "e", "y", "s" >>
      [] word = "verify-device" ->
           << "v", "e", "r", "i", "f", "y",
              "-", "d", "e", "v", "i", "c", "e" >>
      [] word = "unverify-device" ->
           << "u", "n", "v", "e", "r", "i", "f",
              "y", "-", "d", "e", "v", "i", "c", "e" >>
      [] word = "start-verification" ->
           << "s", "t", "a", "r", "t", "-", "v", "e", "r",
              "i", "f", "i", "c", "a", "t", "i", "o", "n" >>
      [] word = "accept-verification" ->
           << "a", "c", "c", "e", "p", "t", "-", "v", "e",
              "r", "i", "f", "i", "c", "a", "t", "i", "o", "n" >>
      [] word = "confirm-verification" ->
           << "c", "o", "n", "f", "i", "r", "m", "-", "v", "e",
              "r", "i", "f", "i", "c", "a", "t", "i", "o", "n" >>
      [] word = "cancel-verification" ->
           << "c", "a", "n", "c", "e", "l", "-", "v", "e",
              "r", "i", "f", "i", "c", "a", "t", "i", "o", "n" >>
      [] word = "foo" -> << "f", "o", "o" >>
      [] word = "list" -> << "l", "i", "s", "t" >>
      [] word = "al" -> << "a", "l" >>
      [] word = "@alice" -> << "@", "a", "l", "i", "c", "e" >>
      [] word = "@bob" -> << "@", "b", "o", "b" >>
      [] word = "@carol" -> << "@", "c", "a", "r", "o", "l" >>
      [] word = "AB" -> << "A", "B" >>
      [] word = "CD" -> << "C", "D" >>
      [] word = "AL" -> << "A", "L" >>
      [] word = "alpha" -> << "a", "l", "p", "h", "a" >>
      [] word = "beta" -> << "b", "e", "t", "a" >>
      [] word = "cal" -> << "c", "a", "l" >>
      [] OTHER -> << >>

\* len(word)
len(word) == Len(Str(word))

\* "last_word in word" (line 139): last_word occurs in word as a
\* contiguous run of characters.
Contains(word, last_word) ==
    LET w == Str(word)
        l == Str(last_word)
    IN  \E i \in 0..(Len(w) - Len(l)) : SubSeq(w, i + 1, i + Len(l)) = l

\* filename.startswith(prefix), as PathCompleter tests a directory entry.
startswith(word, prefix) ==
    /\ len(prefix) <= len(word)
    /\ SubSeq(Str(word), 1, len(prefix)) = Str(prefix)

\* prompt_toolkit's Completion(text, start_position); text is kept as its
\* characters.
Completion(text, start_position) ==
    [ text |-> text, start_position |-> start_position ]

\* A filter that keeps the words that begin with last_word.
filter_words_by_prefix(words, last_word) ==
    SelectSeq(words, LAMBDA word : startswith(word, last_word))

filter_words(words, last_word) ==
    SelectSeq(words, LAMBDA word : Contains(word, last_word))

\* "for compl_word in compl_words: yield Completion(compl_word,
\* -len(last_word))" (lines 105-106, 116-117, 130-131, 150-151).
yield(compl_words, last_word) ==
    [ i \in DOMAIN compl_words |->
        Completion(Str(compl_words[i]), 0 - len(last_word)) ]

\* A remote query of the completer with its outcome and, when it returned,
\* the reply.
Reply(c, outcome, reply) ==
    [ endpoint |-> c.endpoint, method |-> c.method, args |-> c.args,
      outcome |-> outcome, reply |-> reply ]

\* The attempt ran to its end with these candidates.
Returned(source, queries, candidates) ==
    [ status |-> "done", source |-> source, queries |-> queries,
      candidates |-> candidates ]

\* The query raised DBusException inside the generator: nothing in
\* PanCompleter catches it, so it leaves the iteration of the completions.
Raised(source, c) ==
    [ status |-> "raised", source |-> source,
      queries |-> << Reply(c, "raised", << >>) >>, candidates |-> << >> ]

\* The enumerations of a set.
Orderings(S) ==
    { o \in [1..Cardinality(S) -> S] :
        \A i, j \in 1..Cardinality(S) : i # j => o[i] # o[j] }

\* The directory entries PathCompleter lists for a relative name.
Files == << "alpha", "beta", "cal" >>

\* PathCompleter.get_completions(Document(last_word)) for a text without a
\* directory part: the entries that start with the text, each offered as
\* the characters still missing, inserted at the cursor.
path_completer(last_word) ==
    LET filenames == SelectSeq(Files, LAMBDA f : startswith(f, last_word))
    IN  { Returned("path", << >>,
            [ i \in DOMAIN filenames |->
                Completion(SubSeq(Str(filenames[i]), len(last_word) + 1,
                                  len(filenames[i])), 0) ]) }

complete_commands(last_word) ==
    { Returned("commands", << >>,
               yield(filter_words(commands, last_word), last_word)) }

complete_users(last_word, pan_user, d) ==
    LET c == RemoteCall("devices", "list", << pan_user >>)
        devices == SelectSeq(d.devices, LAMBDA dev : dev.pan_user = pan_user)
        users == { devices[i].user_id : i \in DOMAIN devices }
    IN  { Returned("users", << Reply(c, "returned", devices) >>,
                   yield(filter_words(o, last_word), last_word)) :
            o \in Orderings(users) }
        \cup { Raised("users", c) }

complete_devices(last_word, pan_user, user_id, d) ==
    LET c == RemoteCall("devices", "list_user_devices", << pan_user, user_id >>)
        devices == SelectSeq(d.devices,
                       LAMBDA dev : dev.pan_user = pan_user
                                    /\ dev.user_id = user_id)
        device_ids == [ i \in DOMAIN devices |-> devices[i].device_id ]
    IN  { Returned("devices", << Reply(c, "returned", devices) >>,
                   yield(filter_words(device_ids, last_word), last_word)),
          Raised("devices", c) }

\* complete_pan_users answering from the reply of an earlier attempt
\* when there is one.
complete_pan_users_cached(last_word, d) ==
    LET c == RemoteCall("control", "list_users", << >>)
        users == IF completion.status = "done" /\ completion.source = "pan_users"
                 THEN completion.queries[1].reply
                 ELSE d.users
    IN  { Returned("pan_users", << Reply(c, "returned", users) >>,
                   yield(filter_words([ i \in DOMAIN users |-> users[i][1] ],
                                      last_word), last_word)),
          Raised("pan_users", c) }

complete_pan_users(last_word, d) ==
    LET c == RemoteCall("control", "list_users", << >>)
        users == d.users
    IN  { Returned("pan_users", << Reply(c, "returned", users) >>,
                   yield(filter_words([ i \in DOMAIN users |-> users[i][1] ],
                                      last_word), last_word)),
          Raised("pan_users", c) }

\* 'return ""': the caller iterates an empty string.
NoCandidates == { Returned("none", << >>, << >>) }

\* complete_verification with the positions of its second and third
\* branch exchanged.
complete_verification_exchanged(command, last_word, words, d) ==
    IF Len(words) = 2 THEN complete_pan_users(last_word, d)
    ELSE IF Len(words) = 4 THEN complete_users(last_word, words[2], d)
    ELSE IF Len(words) = 3
         THEN complete_devices(last_word, words[2], words[3], d)
    ELSE NoCandidates

complete_verification(command, last_word, words, d) ==
    IF Len(words) = 2 THEN complete_pan_users(last_word, d)
    ELSE IF Len(words) = 3 THEN complete_users(last_word, words[2], d)
    ELSE IF Len(words) = 4
         THEN complete_devices(last_word, words[2], words[3], d)
    ELSE NoCandidates

complete_key_file_cmds(command, last_word, words, d) ==
    IF Len(words) = 2 THEN complete_pan_users(last_word, d)
    ELSE IF Len(words) = 3 THEN path_completer(last_word)
    ELSE NoCandidates

complete_list_devices(last_word, words, d) ==
    IF Len(words) = 2 THEN complete_pan_users(last_word, d)
    ELSE IF Len(words) = 3 THEN complete_users(last_word, words[2], d)
    ELSE NoCandidates

\* get_completions for the text before the cursor, given as the list
\* text_before_cursor.split(" ") (line 197), against the daemon d.
get_completions(words, d) ==
    LET last_word == words[Len(words)] IN
    IF Len(words) = 1 THEN complete_commands(last_word)
    ELSE LET command == words[1] IN
         IF command \in { "start-verification", "accept-verification",
                          "confirm-verification", "cancel-verification",
                          "verify-device", "unverify-device" }
         THEN complete_verification(command, last_word, words, d)
         ELSE IF command \in { "export-keys", "import-keys" }
         THEN complete_key_file_cmds(command, last_word, words, d)
         ELSE IF command = "list-devices"
         THEN complete_list_devices(last_word, words, d)
         ELSE NoCandidates

\* The line editor asks the completer for the candidates of the buffer
\* (the session of line 411 is built with completer=self.completer).
complete ==
    /\ pc = "Prompt"
    /\ \E o \in get_completions(buf, daemon) :
         completion' = [ status |-> o.status, source |-> o.source,
                         queries |-> o.queries, candidates |-> o.candidates,
                         at |-> << daemon >>, before |-> completion.at ]
    /\ UNCHANGED <<pc, buf, result, parsed_args, call, remote, dispatched,
                   pump, idle, handler, emitted, callbacks, screen, cause,
                   log, exitStatus, daemon>>
    /\ UNCHANGED renderVars

\* The daemon's users or devices change.
daemon_changes ==
    /\ pc = "Prompt"
    /\ \E d \in DaemonStates \ {daemon} : daemon' = d
    /\ UNCHANGED <<pc, buf, result, parsed_args, call, remote, dispatched,
                   pump, idle, handler, emitted, callbacks, screen, cause,
                   log, exitStatus, completion>>
    /\ UNCHANGED renderVars

-----------------------------------------------------------------------------
(* partition_key and get_color (lines 235-263), as list_devices applies    *)
(* them to a device record (lines 398-400).  Here a string is the sequence *)
(* of its characters.                                                      *)

\* The characters device ids and keys are made of, and ord() of them and
\* of the space.
Alphabet == { "a", "B", "7" }
ord(x) ==
    CASE x = "a" -> 97
      [] x = "B" -> 66
      [] x = "7" -> 55
      [] x = " " -> 32

\* The strings of at most n characters.
Strings(n) == UNION { [1..k -> Alphabet] : k \in 0..n }

\* grouper(iterable, n, fillvalue): zip_longest over n references to one
\* iterator gives the items n at a time, the last tuple filled up.
grouper(iterable, n, fillvalue) ==
    [ g \in 1..((Len(iterable) + n - 1) \div n) |->
        [ j \in 1..n |->
            IF (g - 1) * n + j <= Len(iterable)
            THEN iterable[(g - 1) * n + j]
            ELSE fillvalue ] ]

\* sep.join(strs)
RECURSIVE join(_, _)
join(sep, strs) ==
    IF strs = << >> THEN << >>
    ELSE IF Len(strs) = 1 THEN strs[1]
    ELSE strs[1] \o sep \o join(sep, Tail(strs))

\* partition_key joins the groups of 4 without padding the last one.
partition_key_unpadded(k) ==
    join(<< " " >>,
         [ g \in 1..((Len(k) + 3) \div 4) |->
             SubSeq(k, (g - 1) * 4 + 1,
                    IF g * 4 <= Len(k) THEN g * 4 ELSE Len(k)) ])

\* ''.join(g) of a tuple of characters is the tuple itself.
partition_key(k) == join(<< " " >>, grouper(k, 4, " "))

\* A 32-bit value as its two 16-bit halves.  Python computes the hash in
\* unbounded integers and masks once at the end (line 252); as the step is
\* a ring operation the masked result is the same when every step is
\* reduced, which keeps the numbers within the checker's integers.
Half == 65536
Word32(hi, lo) == [ hi |-> hi, lo |-> lo ]

\* ((hash << 5) + hash) + ord(x), reduced to 32 bits.
djb2_step(hash, x) ==
    LET lo == hash.lo * 33 + ord(x)
        hi == hash.hi * 33 + (lo \div Half)
    IN  Word32(hi % Half, lo % Half)

RECURSIVE djb2_from(_, _)
djb2_from(hash, string) ==
    IF string = << >> THEN hash
    ELSE djb2_from(djb2_step(hash, Head(string)), Tail(string))

\* hash = 5381; for x in string: ...; return hash & 0xFFFFFFFF
djb2(string) == djb2_from(Word32(0, 5381), string)

\* value % m for a 32-bit value in halves.
Mod(value, m) == ((value.hi % m) * (Half % m) + (value.lo % m)) % m

colors ==
    << "ansiblue", "ansigreen", "ansired", "ansiyellow", "ansicyan",
       "ansimagenta" >>

\* The number the code reduces the hash by (line 263).
Modulus == 5

\* colors[djb2(string) % 5]; Python indexes from 0.
get_color(string) == colors[Mod(djb2(string), Modulus) + 1]

\* key = partition_key(device["fingerprint_key"]) (line 399)
list_devices_key ==
    /\ pc = "Dispatch"
    /\ device # NoDevice
    /\ key = NotComputed
    /\ key' = << partition_key(device.fingerprint_key) >>
    /\ UNCHANGED <<pc, buf, result, parsed_args, call, remote, dispatched,
                   pump, idle, handler, emitted, callbacks, screen, cause,
                   log, exitStatus, daemon, completion, device, color>>

\* color = get_color(device["device_id"]) (line 400)
list_devices_color ==
    /\ pc = "Dispatch"
    /\ key # NotComputed
    /\ color = NotComputed
    /\ color' = << get_color(device.device_id) >>
    /\ UNCHANGED <<pc, buf, result, parsed_args, call, remote, dispatched,
                   pump, idle, handler, emitted, callbacks, screen, cause,
                   log, exitStatus, daemon, completion, device, key>>

\* The next device of the reply is taken up (line 398): the values
\* computed for the last one are dropped.
list_devices_next ==
    /\ pc = "Dispatch"
    /\ color # NotComputed
    /\ key' = NotComputed
    /\ color' = NotComputed
    /\ UNCHANGED <<pc, buf, result, parsed_args, call, remote, dispatched,
                   pump, idle, handler, emitted, callbacks, screen, cause,
                   log, exitStatus, daemon, completion, device>>

-----------------------------------------------------------------------------
(* Specifications                                                          *)

\* The lines typed in the lifecycle model: the empty line, a blank line, a
\* command that calls the daemon, one that does not, a word that is no
\* verb, and the help flag.
CoreLines ==
    { <<"">>, <<"", "">>, <<"list-users">>,
      <<"accept-verification", "a", "b", "a">>, <<"foo">>, <<"-h">> }

\* The lines typed in the parsing model.
ReplLines == Lines(FirstWords, ArgWords, MaxWords)

\* The whole program with both threads.
Next ==
    \/ PanCtl_init
    \/ run_in_executor
    \/ prompt
    \/ prompt_edit(CoreLines)
    \/ prompt_accept
    \/ prompt_eof
    \/ KeyboardInterrupt
    \/ parse
    \/ dispatch
    \/ remote_return
    \/ idle_add_quit
    \/ await_fut
    \/ glib_run
    \/ glib_quit
    \/ signal
    \/ show_info
    \/ show_sas
    \/ flush_proxy

Spec == Init /\ [][Next]_vars

\* Scheduling: a runnable thread runs.  The main thread continues past
\* lines 471 and 472 when it can; the executor starts the submitted work;
\* the GLib loop dispatches what is ready.  Nothing obliges the operator
\* or the daemon to act.
Fairness ==
    /\ WF_vars(idle_add_quit)
    /\ WF_vars(await_fut)
    /\ WF_vars(glib_run)
    /\ WF_vars(glib_quit)
    /\ WF_vars(show_info)
    /\ WF_vars(show_sas)

SpecFair == Spec /\ Fairness

\* The prompt loop over every line of ReplLines, each typed and entered in
\* one step, with a daemon that emits no signals.
NextRepl ==
    \/ PanCtl_init
    \/ run_in_executor
    \/ prompt
    \/ prompt_line(ReplLines)
    \/ prompt_eof
    \/ KeyboardInterrupt
    \/ parse
    \/ dispatch
    \/ remote_return
    \/ idle_add_quit
    \/ await_fut
    \/ glib_run
    \/ glib_quit

SpecRepl == Init /\ [][NextRepl]_vars

\* The lines completed in the completion model: as first word every name
\* a verb table knows, a word that is no verb, a part of a name and the
\* empty word; as later words a served user, another user, a part of a
\* name and the empty word.
ComplFirst == Range(commands) \cup { "cancel-verification", "foo", "list", "" }
ComplArgs == { "@alice", "@carol", "al", "" }
ComplLines == Lines(ComplFirst, ComplArgs, MaxBufWords)

\* The prompt is up with some text before the cursor, against some state
\* of the daemon.
InitCompl ==
    /\ pc = "Prompt"
    /\ buf \in ComplLines
    /\ result = <<"">>
    /\ parsed_args = NotParsed
    /\ call = NoCall
    /\ remote = << >>
    /\ dispatched = 0
    /\ pump = "running"
    /\ idle = FALSE
    /\ handler = NoHandler
    /\ emitted = 0
    /\ callbacks = << >>
    /\ screen = << PromptRow(buf) >>
    /\ cause = "none"
    /\ log = << >>
    /\ exitStatus = NotExited
    /\ daemon \in DaemonStates
    /\ completion = NoCompletion
    /\ device = NoDevice
    /\ key = NotComputed
    /\ color = NotComputed

\* Completion attempts on a buffer while the daemon's state may change.
NextCompl ==
    \/ complete
    \/ daemon_changes

SpecCompl == InitCompl /\ [][NextCompl]_vars

\* The device records printed in the rendering model: every id with one
\* key, and every key with one id.
Devices ==
    { [ device_id |-> s, fingerprint_key |-> << "a", "B", "7", "a", "B" >> ] :
        s \in Strings(MaxStrLen) }
    \cup
    { [ device_id |-> << "B", "a", "7" >>, fingerprint_key |-> s ] :
        s \in Strings(MaxStrLen) }

\* list_devices has its reply and prints one of its device records.
InitDevice ==
    /\ pc = "Dispatch"
    /\ buf = << "list-devices", "a", "b" >>
    /\ result = buf
    /\ parsed_args = parse_args(split(result))
    /\ call = NoCall
    /\ remote = << Issued(dispatch_call(parsed_args), "returned") >>
    /\ dispatched = 1
    /\ pump = "running"
    /\ idle = FALSE
    /\ handler = NoHandler
    /\ emitted = 0
    /\ callbacks = << >>
    /\ screen = << PromptRow(buf) >>
    /\ cause = "none"
    /\ log = << >>
    /\ exitStatus = NotExited
    /\ daemon = Daemon1
    /\ completion = NoCompletion
    /\ device \in Devices
    /\ key = NotComputed
    /\ color = NotComputed

NextDevice ==
    \/ list_devices_key
    \/ list_devices_color
    \/ list_devices_next

SpecDevice == InitDevice /\ [][NextDevice]_vars

-----------------------------------------------------------------------------
(* Shutdown (claims C1, C2)                                                *)

\* The shutdown events of the log without the pump's late start.
ShutdownOrder == SelectSeq(log, LAMBDA e : e # "run")

PumpAlive == pump \in { "submitted", "running" }

\* C1: after a user interrupt the prompt loop has stopped for good (the
\* main thread is never again at Prompt, Parse, Dispatch or in a call);
\* the quit request is made only after the loop stopped, the pump ends
\* only after the request, and the process exits only after the pump has
\* ended.  In no state has the process exited while the pump is alive.
C1_InterruptShutdownOrder ==
    /\ cause = "interrupt" =>
         /\ pc \in { "stopped", "join", "exited" }
         /\ call = NoCall
         /\ pc = "stopped" => ShutdownOrder = <<"stop">> /\ ~idle /\ PumpAlive
         /\ pc = "join" =>
              \/ ShutdownOrder = <<"stop", "signal">> /\ idle /\ PumpAlive
              \/ ShutdownOrder = <<"stop", "signal", "return">> /\ ~PumpAlive
         /\ pc = "exited" =>
              ShutdownOrder = <<"stop", "signal", "return", "exit">>
    /\ pc = "exited" => ~PumpAlive

\* C1 witness: an interrupted run that went through the whole shutdown.
C1_Witness ==
    /\ cause = "interrupt"
    /\ pc = "exited"
    /\ pump = "returned"
    /\ log = <<"stop", "signal", "return", "exit">>

\* C2: once the loop has ended by end-of-input or by an interrupt, the
\* process eventually exits with status 0.
C2_EventuallyExitsZero ==
    (pc = "stopped" /\ cause \in { "eof", "interrupt" })
        ~> (pc = "exited" /\ exitStatus = << 0 >>)

\* C2 witness: a run that exited with status 0 although the quit request
\* was made before the pump had begun to run.
C2_Witness ==
    /\ pc = "exited"
    /\ exitStatus = << 0 >>
    /\ cause \in { "eof", "interrupt" }
    /\ log = <<"stop", "signal", "run", "return", "exit">>

-----------------------------------------------------------------------------
(* Notifications and the prompt line (claim C3)                            *)

IsNotification(c) == c.src \in { "info", "sas" }

\* The notification cells on the screen.
Shown(scr) ==
    UNION { { scr[i][j] : j \in { k \in DOMAIN scr[i] : IsNotification(scr[i][k]) } } :
            i \in DOMAIN scr }

\* The cell c in row i belongs to a block that is on the screen whole: its
\* rows in order, one after the other, each holding nothing else.
WholeBlockAt(scr, i, c) ==
    LET top == i - c.part + 1
        n   == BlockRows(c.src)
    IN  /\ top >= 1
        /\ top + n - 1 <= Len(scr)
        /\ \A q \in 1..n :
             scr[top + q - 1] = << Cell(c.src, c.id, q, << >>, "stdout", c.at) >>

\* C3: the text of a signal delivered while a line is partly typed is on
\* the screen as one whole block of rows, none of them shared with the
\* prompt line or with anything else; and while such text is on the
\* screen (and no text that came in while the prompt context was busy) the
\* live prompt line is the last row, once, showing the buffer as typed.
C3_NotificationBlockIntact ==
    /\ \A i \in DOMAIN screen : \A j \in DOMAIN screen[i] :
         (IsNotification(screen[i][j]) /\ screen[i][j].at = "typing")
             => WholeBlockAt(screen, i, screen[i][j])
    /\ ( /\ pc = "Prompt"
         /\ \E c \in Shown(screen) : c.at = "typing"
         /\ \A c \in Shown(screen) : c.at # "busy" )
       => /\ Last(screen) = PromptRow(buf)
          /\ { i \in DOMAIN screen : IsPromptRow(screen[i]) } = { Len(screen) }

\* C3 witness: a verification block delivered while the operator was
\* typing stands above the live line, which still shows the typed text.
C3_Witness ==
    /\ pc = "Prompt"
    /\ ~IsEmptyText(buf)
    /\ Len(screen) = SasRows + 1
    /\ \E c \in Shown(screen) : c.src = "sas" /\ c.at = "typing"
    /\ Last(screen) = PromptRow(buf)

\* A raw write can spoil the prompt line, but only for a signal that was
\* delivered while the prompt context was busy: such a state is reachable.
PromptRowSpoiled ==
    \E i \in DOMAIN screen :
        /\ Len(screen[i]) > 1
        /\ \E j \in DOMAIN screen[i] : screen[i][j].src = "prompt"

-----------------------------------------------------------------------------
(* Parsing and the prompt loop (claims C4 - C7)                            *)

\* The command grammar as the specification states it (section 6): each
\* verb with its positional parameters in order.
GrammarVerbs ==
    { "list-users", "list-devices", "start-verification",
      "accept-verification", "confirm-verification", "verify-device",
      "unverify-device", "import-keys", "export-keys" }

GrammarParams(verb) ==
    CASE verb = "list-users" -> << >>
      [] verb = "list-devices" -> << "pan_user", "user_id" >>
      [] verb \in { "import-keys", "export-keys" } ->
           << "pan_user", "path", "passphrase" >>
      [] OTHER -> << "pan_user", "user_id", "device_id" >>

\* The tokens of the line the loop has parsed, when it has parsed one.
LineParsed == parsed_args.kind # "none"
argv == split(result)

ErrorReported ==
    \E i \in DOMAIN screen :
        \E j \in DOMAIN screen[i] : screen[i][j].src \in { "error", "traceback" }

\* C4 (as claimed): a parsed line whose first token is no verb of the
\* grammar gave a ParseFailure that was reported, no remote call was
\* made, the process goes on and the loop is about to issue the next
\* prompt.
C4_UnknownVerbIsParseFailure ==
    (LineParsed /\ argv # << >> /\ argv[1] \notin GrammarVerbs)
        => /\ parsed_args.kind = "error"
           /\ ErrorReported
           /\ remote = << >>
           /\ exitStatus = NotExited
           /\ pc = "Loop"

\* C5 (as claimed): a line made of a verb of the grammar and plain words
\* parses to an invocation of that verb, with the words bound to its
\* parameters in order, when the number of words is the declared one, and
\* is a ParseFailure otherwise.
C5_ArityDecidesParse ==
    ( /\ LineParsed
      /\ argv # << >>
      /\ argv[1] \in GrammarVerbs
      /\ \A i \in 2..Len(argv) : argv[i] \in PlainWords )
    => LET params == GrammarParams(argv[1]) IN
       IF Len(argv) - 1 = Len(params)
       THEN parsed_args =
                Namespace(argv[1],
                          [ i \in 1..Len(params) |-> << params[i], argv[i + 1] >> ])
       ELSE parsed_args.kind = "error"

\* C6: the prompt context handles a line in program order and one command
\* at a time: a remote call is in flight exactly while the context is
\* blocked in it; the handler chain is entered only for a parsed
\* invocation, once, and makes at most one call; and when the next prompt
\* is issued after a parsed invocation, its one dispatch is over and no
\* call is pending.
C6_ProgramOrder ==
    /\ (call # NoCall) <=> (pc = "Call")
    /\ Len(remote) <= dispatched /\ dispatched <= 1
    /\ pc = "Parse" => ~LineParsed /\ dispatched = 0
    /\ pc = "Dispatch" => parsed_args.kind = "ok" /\ dispatched = 0
    /\ pc = "Call" =>
         /\ parsed_args.kind = "ok"
         /\ dispatched = 1
         /\ remote = << Issued(call, "pending") >>
    /\ dispatched = 1 => parsed_args.kind = "ok"
    /\ pc = "Loop" =>
         /\ parsed_args.kind = "ok" => dispatched = 1
         /\ \A k \in DOMAIN remote : remote[k].outcome = "returned"
    /\ pc = "Prompt" => ~LineParsed /\ dispatched = 0 /\ remote = << >>

\* C6 witness: about to issue the next prompt after a command whose one
\* remote call has returned.
C6_Witness ==
    /\ pc = "Loop"
    /\ parsed_args.kind = "ok"
    /\ dispatched = 1
    /\ Len(remote) = 1
    /\ remote[1].outcome = "returned"

\* C7 (as claimed): when the remote call of a command has failed, the
\* failure has been reported and the loop is about to issue the next
\* prompt.
C7_RemoteFailureSurvived ==
    \A k \in DOMAIN remote :
        remote[k].outcome = "raised" => ErrorReported /\ pc = "Loop"

-----------------------------------------------------------------------------
(* Dispatch (claim C14)                                                    *)

\* The remote operation the specification names for a parsed line, with
\* the words of the line as its arguments in the order typed; NoCall for
\* a verb without handler.
ExpectedCall(words) ==
    CASE words[1] = "list-users" ->
           RemoteCall("control", "list_users", << >>)
      [] words[1] = "import-keys" ->
           RemoteCall("control", "import_keys", << words[2], words[3], words[4] >>)
      [] words[1] = "export-keys" ->
           RemoteCall("control", "export_keys", << words[2], words[3], words[4] >>)
      [] words[1] = "list-devices" ->
           RemoteCall("devices", "list_user_devices", << words[2], words[3] >>)
      [] words[1] = "confirm-verification" ->
           RemoteCall("devices", "confirm_sas", << words[2], words[3], words[4] >>)
      [] OTHER -> NoCall

\* The handler chain has been entered for a line that names a verb.
Dispatched == dispatched = 1 /\ argv # << >>

\* The calls made for the line are the expected one, and no other.
CallsAsExpected ==
    LET c == ExpectedCall(argv) IN
    IF c = NoCall
    THEN remote = << >>
    ELSE /\ Len(remote) = 1
         /\ remote[1].endpoint = c.endpoint
         /\ remote[1].method = c.method
         /\ remote[1].args = c.args

\* C14.  A parsed invocation is dispatched to the remote operation of its
\* verb, on its endpoint, with the parameters in declared order (list-users,
\* import-keys, export-keys on the control endpoint, list-devices and
\* confirm-verification on the devices endpoint); a verb without handler
\* makes no remote call; and in every case the loop then returns to the
\* prompt: after the dispatch it is blocked in the call or on its way to
\* the next prompt.
C14_DispatchedAndBackToPrompt ==
    Dispatched =>
        /\ CallsAsExpected
        /\ pc \in { "Call", "Loop" }

\* The part of C14 that holds: the operation, the endpoint and the order
\* of the arguments; the loop is back at the prompt when the call has
\* returned or none was made.
C14_DispatchTable ==
    Dispatched =>
        /\ CallsAsExpected
        /\ (\A k \in DOMAIN remote : remote[k].outcome = "returned")
               => pc = "Loop"

\* confirm_sas has been called with the three words in order, and has
\* returned.
C14_TableReached ==
    /\ result = << "confirm-verification", "a", "b", "a" >>
    /\ remote = << Issued(RemoteCall("devices", "confirm_sas",
                                      << "a", "b", "a" >>), "returned") >>
    /\ pc = "Loop"

\* The call of a dispatched command has raised and the loop is gone.
C14_FailureReached ==
    /\ Dispatched
    /\ remote # << >>
    /\ remote[1].outcome = "raised"
    /\ pc = "finalizing"

-----------------------------------------------------------------------------
(* The pump on every way out of the loop (claim C15)                       *)

\* The prompt loop has ended for good and main() has nothing left to do
\* for the pump: the main thread has left main() by an exception, or the
\* process is gone.
LoopGoneForGood == pc \in { "finalizing", "exited" }

\* The pump has been told to stop.
ToldToStop == idle \/ \E i \in DOMAIN log : log[i] = "signal"

\* C15.  On every way the prompt loop stops after the pump was started
\* (end of input, interrupt, an error raised in parsing or dispatch) the
\* pump is told to stop and awaited: in no state is the loop gone for
\* good while the pump is alive and was never told to stop.
C15_PumpToldOnEveryExit ==
    (LoopGoneForGood /\ PumpAlive) => ToldToStop

\* A remote failure has taken the main thread out of main() past lines
\* 471-472 while the pump runs on.
C15_OrphanReached ==
    /\ pc = "finalizing"
    /\ cause = "DBusException"
    /\ pump = "running"
    /\ ~ToldToStop

\* The same after the help flag.
C15_OrphanAfterHelp ==
    /\ pc = "finalizing"
    /\ cause = "SystemExit"
    /\ pump = "running"
    /\ ~ToldToStop

-----------------------------------------------------------------------------
(* The outcomes of a line (claim C16)                                      *)

\* The line entered has passed lines 420-428.
Handled == pc \in { "Loop", "Dispatch", "Call", "finalizing" }

\* The names a Namespace binds, in order.
BoundParams(ns) == [ i \in DOMAIN ns.args |-> ns.args[i][1] ]

EmptyOutcome ==
    /\ IsEmptyText(result)
    /\ parsed_args = NotParsed
    /\ ~ErrorReported
    /\ dispatched = 0

FailureOutcome ==
    /\ ~IsEmptyText(result)
    /\ parsed_args.kind = "error"
    /\ ErrorReported
    /\ dispatched = 0

InvocationOutcome ==
    /\ ~IsEmptyText(result)
    /\ parsed_args.kind = "ok"
    /\ parsed_args.subcommand \in GrammarVerbs
    /\ BoundParams(parsed_args) = GrammarParams(parsed_args.subcommand)

\* C16.  Every line has one of three outcomes: it is empty and the loop
\* goes back to the prompt with no report and no dispatch; it is reported
\* as a parse failure; or it yields an invocation that names a verb of the
\* grammar with every declared parameter bound.  No line yields an
\* invocation without a verb.
C16_ThreeOutcomes ==
    Handled => (EmptyOutcome \/ FailureOutcome \/ InvocationOutcome)

\* A line of one space is not empty for line 420, has no token for
\* argparse, and comes back as a Namespace whose subcommand is None: no
\* branch of the if-chain takes it and nothing is reported.
C16_BlankLineAccepted ==
    /\ result = << "", "" >>
    /\ parsed_args = Namespace(NoSubcommand, << >>)
    /\ dispatched = 1
    /\ remote = << >>
    /\ ~ErrorReported
    /\ pc = "Loop"

-----------------------------------------------------------------------------
(* The frame of a notification (claim C20)                                 *)

\* A step of handling a notification: the receiver is entered or left, or
\* the proxy's queue changes.
Handling == handler' # handler \/ callbacks' # callbacks

\* The positions of the screen that hold part q of notification n.
PlacesOf(scr, n, q) ==
    { << i, j >> \in (DOMAIN scr) \X (1..(InfoRows + SasRows)) :
        /\ j \in DOMAIN scr[i]
        /\ IsNotification(scr[i][j])
        /\ scr[i][j].id = n
        /\ scr[i][j].part = q }

\* No part of a notification is on the screen twice, and a notification
\* that is on the screen is no longer held by the receiver or the proxy.
RenderedOnce(scr, h, cbs) ==
    \A c \in Shown(scr) :
        /\ Cardinality(PlacesOf(scr, c.id, c.part)) = 1
        /\ h.id # c.id
        /\ \A k \in DOMAIN cbs : cbs[k].id # c.id

\* C20.  Handling a notification (info or sas_show) changes nothing but
\* the output: the state of the prompt loop, the line being edited, the
\* line entered and its parsed invocation, the command in flight, the
\* calls made and the daemon's proxies stay as they are; the event is
\* rendered once and not kept.
C20_NotificationFrame ==
    [][ /\ Handling =>
            UNCHANGED << pc, buf, result, parsed_args, call, remote,
                         dispatched, daemon, completion, pump, idle, cause,
                         exitStatus >>
        /\ RenderedOnce(screen', handler', callbacks') ]_vars

\* A notification has been rendered while a command was in flight, and
\* nothing of it is left in the receiver or the proxy.
C20_Witness ==
    /\ pc = "Call"
    /\ call # NoCall
    /\ \E c \in Shown(screen) : c.at = "busy"
    /\ handler = NoHandler
    /\ callbacks = << >>

\* Another was rendered through the proxy while a line was being typed.
C20_WhileTyping ==
    /\ pc = "Prompt"
    /\ ~IsEmptyText(buf)
    /\ \E c \in Shown(screen) : c.at = "typing"
    /\ handler = NoHandler
    /\ callbacks = << >>

-----------------------------------------------------------------------------
(* Completion (claims C8, C10)                                             *)

\* The last attempt made a remote query and the query failed.
QueryFailed ==
    \E i \in DOMAIN completion.queries :
        completion.queries[i].outcome = "raised"

\* C8.  When a remote query of the completer (list_users, devices.list,
\* list_user_devices) fails, the attempt ends with an empty candidate list
\* and the failure does not leave the completer.
C8_QueryFailureGivesNoCandidates ==
    QueryFailed =>
        /\ completion.status = "done"
        /\ completion.candidates = << >>

\* A failed query is reachable: list_users raises while the first argument
\* of list-devices is completed.
C8_FailureReached ==
    /\ buf = << "list-devices", "" >>
    /\ QueryFailed

\* The word index under completion, and the word itself.
index == Len(buf) - 1
target == buf[Len(buf)]

\* The texts of the candidates of the last attempt.
Texts == { completion.candidates[i].text : i \in DOMAIN completion.candidates }

\* The last attempt made exactly the one query method(args) on endpoint.
Asked(endpoint, method, args) ==
    /\ Len(completion.queries) = 1
    /\ completion.queries[1].endpoint = endpoint
    /\ completion.queries[1].method = method
    /\ completion.queries[1].args = args

\* When the attempt's query returned, its candidates are drawn from the
\* field f of the reply's entries, all of them for an empty target.
DrawnFrom(f) ==
    completion.status = "done" =>
        LET reply == completion.queries[1].reply
            S == { Str(reply[i][f]) : i \in DOMAIN reply }
        IN  /\ Texts \subseteq S
            /\ target = "" => Texts = S

AsksKnownUsers ==
    /\ Asked("control", "list_users", << >>)
    /\ DrawnFrom(1)
AsksUserIds ==
    /\ Asked("devices", "list", << buf[2] >>)
    /\ DrawnFrom("user_id")
AsksDeviceIds ==
    /\ Asked("devices", "list_user_devices", << buf[2], buf[3] >>)
    /\ DrawnFrom("device_id")
AsksPaths ==
    /\ completion.queries = << >>
    /\ completion.source = "path"
    /\ completion.status = "done"
AsksNothing ==
    /\ completion.queries = << >>
    /\ completion.candidates = << >>
    /\ completion.status = "done"

\* The verbs of the grammar that take pan_user, user_id and device_id.
VerificationFamily ==
    { "start-verification", "accept-verification", "confirm-verification",
      "verify-device", "unverify-device" }
KeyFileVerbs == { "import-keys", "export-keys" }

\* C10.  For a buffer of two or more words the source of the candidates is
\* fixed by the first word and the index of the word under completion:
\* verification verbs ask for the known users at index 1, for the user ids
\* of word 1 at index 2 and for the device ids of (word 1, word 2) at
\* index 3; import-keys and export-keys ask for the known users at index 1
\* and for paths at index 2; list-devices asks for the known users at
\* index 1 and for the user ids of word 1 at index 2; any other position
\* and any other first word gives no candidates and makes no query.
\* (cancel-verification, which is no verb of the grammar but has a
\* strategy registered, is held to its registered strategy, that of the
\* verification verbs.)
C10_SourceByVerbAndIndex ==
    (completion.status # "none" /\ Len(buf) >= 2) =>
        LET verb == buf[1] IN
        CASE verb \in VerificationFamily \cup { "cancel-verification" }
               /\ index = 1 -> AsksKnownUsers
          [] verb \in VerificationFamily \cup { "cancel-verification" }
               /\ index = 2 -> AsksUserIds
          [] verb \in VerificationFamily \cup { "cancel-verification" }
               /\ index = 3 -> AsksDeviceIds
          [] verb \in KeyFileVerbs /\ index = 1 -> AsksKnownUsers
          [] verb \in KeyFileVerbs /\ index = 2 -> AsksPaths
          [] verb = "list-devices" /\ index = 1 -> AsksKnownUsers
          [] verb = "list-devices" /\ index = 2 -> AsksUserIds
          [] OTHER -> AsksNothing

\* The device ids of (@alice, @carol) are offered at index 3 of a
\* verification verb.
C10_Witness ==
    /\ buf = << "verify-device", "@alice", "@carol", "" >>
    /\ completion.status = "done"
    /\ Texts = { Str("CD"), Str("AL") }

-----------------------------------------------------------------------------
(* Filtering and the replacement span (claim C11)                          *)

\* The members of the last attempt's source: the command names, the file
\* names, or what the reply of its query lists.
SourceSet ==
    CASE completion.source = "commands" -> Range(commands)
      [] completion.source = "path" -> Range(Files)
      [] completion.source = "pan_users" ->
           { completion.queries[1].reply[i][1] :
               i \in DOMAIN completion.queries[1].reply }
      [] completion.source = "users" ->
           { completion.queries[1].reply[i].user_id :
               i \in DOMAIN completion.queries[1].reply }
      [] completion.source = "devices" ->
           { completion.queries[1].reply[i].device_id :
               i \in DOMAIN completion.queries[1].reply }
      [] OTHER -> { }

\* The candidates are the members of the source that contain the target,
\* each replacing the whole target.
FilteredBySubstring ==
    /\ Texts = { Str(w) : w \in { x \in SourceSet : Contains(x, target) } }
    /\ \A i \in DOMAIN completion.candidates :
         completion.candidates[i].start_position = 0 - len(target)

\* The candidates are, for the members of the source that begin with the
\* target, the characters after the target, inserted at the cursor.
CompletedByPrefix ==
    /\ Texts = { SubSeq(Str(w), len(target) + 1, len(w)) :
                   w \in { x \in SourceSet : startswith(x, target) } }
    /\ \A i \in DOMAIN completion.candidates :
         completion.candidates[i].start_position = 0

C11_CaseWitness ==
    /\ buf = << "verify-device", "@alice", "@carol", "al" >>
    /\ completion.status = "done"
    /\ SourceSet = { "CD", "AL" }
    /\ completion.candidates = << >>

\* A path is completed from a prefix: "al" offers "pha" at the cursor,
\* and not "cal".
C11_PathWitness ==
    /\ buf = << "import-keys", "@alice", "al" >>
    /\ completion.candidates = << Completion(<< "p", "h", "a" >>, 0) >>

-----------------------------------------------------------------------------
(* Colours and keys of the device list (claims C12, C13)                   *)

\* C12.  The colour of a string is the palette entry at index h mod 6,
\* h being the 32-bit hash from 5381 with step h*33 + code(c), and the
\* palette the list of 6 colours.
C12_ColourIsHashMod6 ==
    color # NotComputed =>
        color[1] = colors[Mod(djb2(device.device_id), Len(colors)) + 1]

\* What the code does instead: the index is h mod 5, so the last palette
\* entry is never given.
C12_ColourIsHashMod5 ==
    color # NotComputed =>
        /\ color[1] = colors[Mod(djb2(device.device_id), 5) + 1]
        /\ color[1] # "ansimagenta"

\* The id "B": h = 5381 * 33 + 66 = 177639, which is 4 mod 5 and 3 mod 6.
C12_Reached ==
    /\ device.device_id = << "B" >>
    /\ djb2(device.device_id) = Word32(2, 46567)
    /\ color = << "ansicyan" >>

\* The length of the key as printed.
KeyOut == key[1]
KeyIn == device.fingerprint_key

\* The characters come in order in groups of exactly 4, joined by single
\* spaces, the last group filled up with spaces.
GroupedByFour ==
    /\ \A i \in 1..Len(KeyOut) :
         IF i % 5 = 0 THEN KeyOut[i] = " "
         ELSE LET k == i - (i \div 5) IN
              KeyOut[i] = IF k <= Len(KeyIn) THEN KeyIn[k] ELSE " "
    /\ (Len(KeyOut) - (Len(KeyOut) \div 5)) % 4 = 0
    /\ Len(KeyOut) - (Len(KeyOut) \div 5) >= Len(KeyIn)
    /\ Len(KeyOut) - (Len(KeyOut) \div 5) < Len(KeyIn) + 4

\* C13 as stated.  For every fingerprint the output is the characters in
\* groups of exactly 4 joined by single spaces, the last group padded, and
\* its length is a multiple of 5 minus 1.
C13_LengthIsMultipleOf5Minus1 ==
    key # NotComputed =>
        /\ GroupedByFour
        /\ \E m \in 0..Len(KeyIn) : Len(KeyOut) = 5 * m - 1

\* C13.  For every non-empty fingerprint the output is the characters in
\* order in groups of exactly 4 joined by single spaces, the last group
\* right-padded with spaces, so its length is a multiple of 5 minus 1; the
\* empty fingerprint gives the empty output.
C13_GroupsOfFour ==
    key # NotComputed =>
        /\ GroupedByFour
        /\ IF KeyIn = << >>
           THEN KeyOut = << >>
           ELSE \E m \in 1..Len(KeyIn) : Len(KeyOut) = 5 * m - 1

\* A key of 7 characters comes out as two groups, the second padded.
C13_Witness ==
    /\ KeyIn = << "a", "B", "7", "a", "B", "7", "a" >>
    /\ key = << << "a", "B", "7", "a", " ", "B", "7", "a", " " >> >>

\* The empty key comes out empty.
C13_EmptyKey ==
    /\ KeyIn = << >>
    /\ key = << << >> >>

-----------------------------------------------------------------------------
(* The verb tables (claim C17)                                             *)

\* A line made of the verb and as many plain words as the grammar
\* declares parameters for it.
FullLine(verb) ==
    << verb >> \o [ i \in 1..Len(GrammarParams(verb)) |-> "a" ]

\* The parser accepts the verb given its declared number of arguments.
ParserAccepts(verb) ==
    LET ns == parse_args(FullLine(verb)) IN
    ns.kind = "ok" /\ ns.subcommand = verb

\* The names whose characters are a candidate of the last attempt.
Offered == { v \in Range(commands) \cup Choices : Str(v) \in Texts }

\* C17.  The three verb tables agree: every name command completion
\* offers at index 0 is a verb the parser accepts with its declared number
\* of arguments; every verb the parser accepts is offered by command
\* completion; and every verb with a completion strategy is a verb of the
\* grammar.
C17_VerbTablesAgree ==
    completion.status = "done" =>
        /\ completion.source = "commands" =>
             /\ \A v \in Offered : ParserAccepts(v)
             /\ target = "" => Choices \subseteq Offered
        /\ (Len(buf) >= 2 /\ completion.source # "none") =>
             buf[1] \in GrammarVerbs

\* What does hold: every verb the parser accepts is offered.
C17_ParserVerbsOffered ==
    (completion.status = "done" /\ completion.source = "commands"
        /\ target = "") => Choices \subseteq Offered

\* Command completion offers unverify-device, which the parser rejects.
C17_OfferedButRejected ==
    /\ buf = << "" >>
    /\ "unverify-device" \in Offered
    /\ parse_args(<< "unverify-device", "a", "a", "a" >>).kind = "error"

\* cancel-verification, no verb of the grammar and no name the parser or
\* command completion knows, has its first argument completed from the
\* daemon's users.
C17_StrategyWithoutVerb ==
    /\ buf = << "cancel-verification", "" >>
    /\ completion.status = "done"
    /\ completion.source = "pan_users"
    /\ "cancel-verification" \notin GrammarVerbs \cup Choices \cup Range(commands)

-----------------------------------------------------------------------------
(* Tokenisation (claim C18)                                                *)

\* The tokens the parser's result.split() (line 426) finds before the
\* completion target, and the buffer as those tokens and the target.
TokensBefore == split(Front(buf))
AsParsed == Append(TokensBefore, target)

\* The sources get_completions picks for a list of words.
SourcesFor(words) == { o.source : o \in get_completions(words, daemon) }

\* C18.  The completer and the parser tokenise alike: the index the
\* completer gives the completion target is the number of
\* whitespace-delimited tokens before it, the position the parser binds
\* that word to, also when words are separated by several spaces; so the
\* source completed from is the one of that position.
C18_SameTokenisation ==
    completion.status # "none" =>
        /\ index = Len(TokensBefore)
        /\ completion.source \in SourcesFor(AsParsed)

\* After "list-devices" and two spaces the next word is the parser's
\* first argument, pan_user, but the completer counts the empty word
\* between the spaces and completes user ids of the pan_user "".
C18_DoubleSpace ==
    /\ buf = << "list-devices", "", "" >>
    /\ Len(TokensBefore) = 1
    /\ index = 2
    /\ completion.source = "users"
    /\ completion.queries[1].args = << "" >>

-----------------------------------------------------------------------------
(* No state between completion attempts (claim C19)                        *)

\* What the daemon, in the state d the last attempt was made at, answers to
\* the query of the attempt's source.
AnswerAt(d) ==
    CASE completion.source = "pan_users" -> d.users
      [] completion.source = "users" ->
           SelectSeq(d.devices, LAMBDA dev : dev.pan_user = buf[2])
      [] completion.source = "devices" ->
           SelectSeq(d.devices,
               LAMBDA dev : dev.pan_user = buf[2] /\ dev.user_id = buf[3])
      [] OTHER -> << >>

RemoteSources == { "pan_users", "users", "devices" }

\* The last attempt made one query, and what it offers is the daemon's
\* answer at that attempt, filtered by the target.
FreshlyQueried ==
    /\ Len(completion.queries) = 1
    /\ completion.status = "done" =>
         /\ completion.queries[1].reply = AnswerAt(completion.at[1])
         /\ FilteredBySubstring

\* C19 as stated.  Every attempt at index 1 or above makes a fresh remote
\* query and offers what the daemon's state at that attempt and the buffer
\* give.
C19_EveryAttemptQueries ==
    (completion.status # "none" /\ index >= 1) => FreshlyQueried

\* C19.  Completion keeps nothing between attempts: every attempt whose
\* position has a remote source (known users, user ids, device ids) makes
\* one fresh query, so that its candidates are those of the daemon's
\* state at that attempt and of the buffer, whatever an earlier attempt
\* saw; a change of the daemon shows in the very next attempt.  An attempt
\* at any other position (a command name, a path, a position without
\* strategy) makes no query.
C19_FreshWhereRemote ==
    completion.status # "none" =>
        IF completion.source \in RemoteSources
        THEN FreshlyQueried
        ELSE completion.queries = << >>

\* The attempt before saw the users @alice and @bob, the daemon changed,
\* and this attempt offers @alice alone.
C19_Witness ==
    /\ buf = << "list-devices", "" >>
    /\ completion.before = << Daemon1 >>
    /\ completion.at = << Daemon2 >>
    /\ completion.status = "done"
    /\ Texts = { Str("@alice") }

\* An attempt at index 1 that makes no query: list-users takes no
\* argument and has no strategy.
C19_NoQueryReached ==
    /\ buf = << "list-users", "" >>
    /\ completion.status = "done"
    /\ completion.queries = << >>

-----------------------------------------------------------------------------
(* Startup (claim C9)                                                      *)

DiagnosticOn(fd) ==
    \E i \in DOMAIN screen :
        \E j \in DOMAIN screen[i] :
            screen[i][j].src = "diag" /\ screen[i][j].fd = fd

PromptShown ==
    \E i \in DOMAIN screen :
        \E j \in DOMAIN screen[i] : screen[i][j].src = "prompt"

StartupFatal ==
    /\ pc = "exited"
    /\ exitStatus # NotExited
    /\ exitStatus[1] # 0
    /\ ~PromptShown
    /\ pump = "none"

\* C9 (as claimed): when the daemon cannot be reached at startup the
\* diagnostic is on standard error, the process has exited with a
\* non-zero status, no prompt is shown and the pump was never started.
C9_DiagnosticOnStderr ==
    cause = "nobus" => DiagnosticOn("stderr") /\ StartupFatal

\* C9 (amended): as claimed, but the diagnostic is on standard output.
C9_StartupFailureFatal ==
    cause = "nobus" =>
        /\ DiagnosticOn("stdout")
        /\ ~DiagnosticOn("stderr")
        /\ StartupFatal

\* C9 witness: the process after a failed startup.
C9_Witness ==
    /\ cause = "nobus"
    /\ pc = "exited"
    /\ DiagnosticOn("stdout")

=============================================================================
